---- MODULE Spec2Model ----
(***************************************************************************)
(* A model of src/module_find_episodes.py: the discovery driver (main),    *)
(* the episode processor (_process_new_episode), the publish path          *)
(* (_create_reddit_post) and the post composer (_format_post_text,         *)
(* safe_format).                                                           *)
(*                                                                         *)
(* Texts are sequences of symbols: "{" and "}" are symbols of their own,   *)
(* a placeholder name, a word or a run of whitespace is one symbol.        *)
(***************************************************************************)
EXTENDS Integers, Sequences, FiniteSets, TLC

\* Largest raw episode number a service handler reports.
MaxRaw == 1

\* The number of posts the publishing client accepts before it refuses all.
MaxPosts == 2

\* Composer on its own: the most streams a show has.
MaxStreams == 2

\* Composer on its own: the most records the store holds.
MaxStored == 3

\* Composer on its own: the most pieces (literals, replacement fields, braces)
\* a template is made of.
MaxPieces == 3

(***************************************************************************)
(* Persistence content the core only reads (db.get_services,               *)
(* db.get_streams, db.get_show): the collaborators' data.                  *)
(***************************************************************************)

\* The shows of the store.
Shows == {1, 2}

\* A show id that some stream refers to and no show has.
MissingShow == 0

ShowName(s) == IF s = 1 THEN "Alpha" ELSE "Beta"

HasSource(s) == s = 1

\* db.get_services(enabled=True), in the store's order.
EnabledServices == <<1, 2, 3>>

\* service_handler.is_generic of the handler of a service.
IsGeneric(svc) == svc \in {2, 3}

\* The tracked streams: two services carry show 1, show 2 has no stream.
StreamA == [id |-> 1, show |-> 1, service |-> 1, remote_offset |-> 1, display_offset |-> 2, active |-> TRUE]

StreamB == [id |-> 2, show |-> 1, service |-> 2, remote_offset |-> 0, display_offset |-> 1, active |-> FALSE]

StreamC == [id |-> 3, show |-> MissingShow, service |-> 1, remote_offset |-> 0, display_offset |-> 0, active |-> TRUE]

\* db.get_streams(service=service), in the store's order.
StreamsOf(svc) ==
    IF svc = 1 THEN <<StreamC, StreamA>>
    ELSE IF svc = 2 THEN <<StreamB>>
    ELSE <<>>

\* db.get_streams(show=show), in the store's order.
StreamsOfShow(show) == SelectSeq(<<StreamC, StreamA, StreamB>>, LAMBDA st : st.show = show)

\* db.get_service(id=...): the service's enabled and use_in_post flags, its name.
ServiceEnabled(svc) == \E i \in 1..Len(EnabledServices) : EnabledServices[i] = svc

UseInPost(svc) == svc \in {1, 2}

ServiceName(svc) == IF svc = 1 THEN "Crunchy" ELSE IF svc = 2 THEN "Nyaa" ELSE "Other"

\* service_handler.get_stream_link(stream)
StreamLink(st) == "stream/" \o ServiceName(st.service)

\* db.get_links(show=show): the link sites of a show's links, in the store's order.
LinksOf(show) == IF show = 1 THEN <<1, 2>> ELSE <<>>

\* db.get_link_site(id=...).enabled and .name
SiteEnabled(site) == site = 1

SiteName(site) == IF site = 1 THEN "MAL" ELSE "AniDB"

\* link_handler.get_link(link)
LinkText(site) == "link/" \o SiteName(site)

\* Stream.from_show(show): the synthetic stream of the generic pass.
FromShow(s) == [id |-> 0, show |-> s, service |-> 0, remote_offset |-> 0, display_offset |-> 0, active |-> TRUE]

(***************************************************************************)
(* Configuration consumed by the composer: config.post_title,              *)
(* config.post_body, config.post_formats.                                  *)
(***************************************************************************)

post_title == <<"{", "show_name", "}", " - Episode ", "{", "episode", "}", "{", "episode_name", "}">>

post_body == <<"{", "spoiler", "}", "\n", "Episode ", "{", "episode", "}", "\n", "{", "discussions", "}", "\n">>

FormatSpoiler == <<"Spoilers!">>

FormatDiscussionHeader == <<"Episode|Link">>

FormatDiscussion == <<"{", "episode_num", "}", "|", "{", "episode_link", "}">>

FormatDiscussionNone == <<"*None*">>

FormatStream == <<"{", "service_name", "}", ": ", "{", "stream_link", "}">>

FormatLink == <<"{", "site_name", "}", ": ", "{", "link", "}">>

(***************************************************************************)
(* str() of the values the composer renders.                               *)
(***************************************************************************)

DigitStr(d) ==
    CASE d = 0 -> "0" [] d = 1 -> "1" [] d = 2 -> "2" [] d = 3 -> "3" [] d = 4 -> "4"
      [] d = 5 -> "5" [] d = 6 -> "6" [] d = 7 -> "7" [] d = 8 -> "8" [] d = 9 -> "9"

RECURSIVE NatStr(_)
NatStr(n) == IF n < 10 THEN DigitStr(n) ELSE NatStr(n \div 10) \o DigitStr(n % 10)

\* str(n) of a Python int.
IntStr(n) == IF n < 0 THEN "-" \o NatStr(-n) ELSE NatStr(n)

\* reddit.get_shortlink_from_id(new_post.id): the short link of the k-th post.
ShortLink(k) == "redd.it/" \o NatStr(k)

(***************************************************************************)
(* safe_format                                                             *)
(***************************************************************************)

\* A value passed to safe_format is a str, given as its text, or an int: the
\* callers pass episode numbers as ints (episode=episode_num,
\* episode_num=episode.number).
IntVal(n) == <<"#int", n>>

IsInt(v) == Len(v) = 2 /\ v[1] = "#int"

\* str(value)
Str(v) == IF IsInt(v) THEN <<IntStr(v[2])>> ELSE v

\* format(n, "02d") of an int.
ZeroPad(n) == IF 0 <= n /\ n < 10 THEN "0" \o DigitStr(n) ELSE IntStr(n)

\* The format specs a replacement field may carry, "{name:02d}"; a spec is a
\* symbol of its own between the name and the closing brace.
FormatSpecs == {":02d"}

\* The field name of a replacement field: any symbol but a brace or a spec.
IsFieldName(sym) == sym \notin ({"{", "}"} \cup FormatSpecs)

\* _SafeDict.__missing__ and dict lookup: the value of a field, or the
\* placeholder echoed (a str).
SafeDictGet(kw, key) == IF key \in DOMAIN kw THEN kw[key] ELSE <<"{", key, "}">>

\* format(value, "02d"): an int is padded, a str has no format code d.
ValueError == <<"#ValueError#">>

Formatted(v) == IF IsInt(v) THEN <<ZeroPad(v[2])>> ELSE ValueError

\* The scan of str.format_map from position i on; a ValueError leaves its
\* mark in the result.
RECURSIVE FormatFrom(_, _, _)
FormatFrom(s, i, kw) ==
    IF i > Len(s) THEN <<>>
    ELSE IF s[i] = "{" THEN
        IF i + 1 <= Len(s) /\ s[i + 1] = "{"
        THEN <<"{">> \o FormatFrom(s, i + 2, kw)
        ELSE IF i + 2 <= Len(s) /\ IsFieldName(s[i + 1]) /\ s[i + 2] = "}"
        THEN Str(SafeDictGet(kw, s[i + 1])) \o FormatFrom(s, i + 3, kw)
        ELSE IF /\ i + 3 <= Len(s)
                /\ IsFieldName(s[i + 1])
                /\ s[i + 2] \in FormatSpecs
                /\ s[i + 3] = "}"
        THEN Formatted(SafeDictGet(kw, s[i + 1])) \o FormatFrom(s, i + 4, kw)
        ELSE ValueError
    ELSE IF s[i] = "}" THEN
        IF i + 1 <= Len(s) /\ s[i + 1] = "}"
        THEN <<"}">> \o FormatFrom(s, i + 2, kw)
        ELSE ValueError
    ELSE <<s[i]>> \o FormatFrom(s, i + 1, kw)

\* The call raised.
Raises(text) == \E i \in 1..Len(text) : text[i] = ValueError[1]

\* s.format_map(_SafeDict(**kwargs)); the arguments are evaluated once, and an
\* exception is the whole result.
safe_format(s, kw) ==
    CHOOSE r \in {IF Raises(f) THEN ValueError ELSE f :
                     f \in {FormatFrom(a[1], 1, a[2]) : a \in {<<s, kw>>}}} : TRUE

\* "{name}" in text
HasPlaceholder(text, name) ==
    \E t \in {text} :
        \E i \in 1..(Len(t) - 2) : t[i] = "{" /\ t[i + 1] = name /\ t[i + 2] = "}"

IsSpace(sym) == sym \in {" ", "\n", "\t"}

RECURSIVE LStrip(_)
LStrip(t) == IF t # <<>> /\ IsSpace(Head(t)) THEN LStrip(Tail(t)) ELSE t

RECURSIVE RStrip(_)
RStrip(t) == IF t # <<>> /\ IsSpace(t[Len(t)]) THEN RStrip(SubSeq(t, 1, Len(t) - 1)) ELSE t

\* text.strip()
Strip(t) == CHOOSE r \in {RStrip(l) : l \in {LStrip(x) : x \in {t}}} : TRUE

RECURSIVE JoinLines(_)
\* "\n".join(lines)
JoinLines(lines) ==
    CHOOSE r \in {IF l = <<>> THEN <<>>
                  ELSE IF Len(l) = 1 THEN l[1]
                  ELSE l[1] \o <<"\n">> \o JoinLines(Tail(l)) : l \in {lines}} : TRUE

(***************************************************************************)
(* Content blocks                                                          *)
(***************************************************************************)

_gen_text_spoiler(show) == IF HasSource(show) THEN FormatSpoiler ELSE <<>>

\* db.get_episodes(show): the show's records in stored order.
RECURSIVE get_episodes(_, _)
get_episodes(eps, show) ==
    IF eps = <<>> THEN <<>>
    ELSE IF Head(eps).show = show
         THEN <<Head(eps)>> \o get_episodes(Tail(eps), show)
         ELSE get_episodes(Tail(eps), show)

DiscussionLine(e) ==
    safe_format(FormatDiscussion,
                [episode_num |-> IntVal(e.number), episode_link |-> <<e.link>>])

\* A block without the test for an empty list: the header alone.
DiscussionsHeaderAlways(eps, show) ==
    CHOOSE r \in
        {JoinLines(<<FormatDiscussionHeader>>
                   \o [i \in 1..Len(found) |-> DiscussionLine(found[i])]) :
            found \in {get_episodes(eps, show)}} : TRUE

_gen_text_discussions(eps, show) ==
    CHOOSE r \in
        {IF Len(found) > 0
         THEN JoinLines(<<FormatDiscussionHeader>>
                        \o [i \in 1..Len(found) |-> DiscussionLine(found[i])])
         ELSE FormatDiscussionNone : found \in {get_episodes(eps, show)}} : TRUE

\* if stream.active: ... if service.enabled and service.use_in_post
Qualifies(st) == st.active /\ ServiceEnabled(st.service) /\ UseInPost(st.service)

StreamLine(st) ==
    safe_format(FormatStream, [service_name |-> <<ServiceName(st.service)>>,
                               stream_link |-> <<StreamLink(st)>>])

\* The rest of _gen_text_streams once streams = db.get_streams(show=show)
\* is read.
StreamsBlock(streams) ==
    CHOOSE r \in
        {IF Len(st) > 0
         THEN JoinLines([i \in 1..Len(SelectSeq(st, Qualifies)) |->
                            StreamLine(SelectSeq(st, Qualifies)[i])])
         ELSE <<"*None*">> : st \in {streams}} : TRUE

_gen_text_streams(show) == StreamsBlock(StreamsOfShow(show))

LinkLine(site) ==
    safe_format(FormatLink, [site_name |-> <<SiteName(site)>>, link |-> <<LinkText(site)>>])

_gen_text_links(show) ==
    CHOOSE r \in
        {JoinLines([i \in 1..Len(links) |-> LinkLine(links[i])]) :
            links \in {SelectSeq(LinksOf(show), SiteEnabled)}} : TRUE

(***************************************************************************)
(* Post composer                                                           *)
(***************************************************************************)

\* A composer that forgets the display offset.
DisplayNumberPlain(episode, stream) == episode.number

\* episode_num = episode.number + stream.display_offset
DisplayNumber(episode, stream) == episode.number + stream.display_offset

\* ": {}".format(episode.name) if episode.name else ""
EpisodeNameSuffix(episode) == IF episode.name # "" THEN <<": ", episode.name>> ELSE <<>>

\* if "{spoiler}" in text: text = safe_format(text, spoiler=...)
WithSpoiler(text, show) ==
    CHOOSE r \in {IF HasPlaceholder(t, "spoiler")
                  THEN safe_format(t, [spoiler |-> _gen_text_spoiler(show)]) ELSE t : t \in {text}} : TRUE

\* if "{streams}" in text: text = safe_format(text, streams=...)
WithStreams(text, show) ==
    CHOOSE r \in {IF HasPlaceholder(t, "streams")
                  THEN safe_format(t, [streams |-> _gen_text_streams(show)]) ELSE t : t \in {text}} : TRUE

\* if "{links}" in text: text = safe_format(text, links=...)
WithLinks(text, show) ==
    CHOOSE r \in {IF HasPlaceholder(t, "links")
                  THEN safe_format(t, [links |-> _gen_text_links(show)]) ELSE t : t \in {text}} : TRUE

\* if "{discussions}" in text: text = safe_format(text, discussions=...)
WithDiscussions(text, eps, show) ==
    CHOOSE r \in {IF HasPlaceholder(t, "discussions")
                  THEN safe_format(t, [discussions |-> _gen_text_discussions(eps, show)])
                  ELSE t : t \in {text}} : TRUE

_format_post_text(eps, text, show, episode, stream) ==
    Strip(safe_format(
        WithDiscussions(WithLinks(WithStreams(WithSpoiler(text, show), show), show), eps, show),
        [show_name |-> <<ShowName(show)>>,
         episode |-> IntVal(DisplayNumber(episode, stream)),
         episode_name |-> EpisodeNameSuffix(episode)]))

_create_post_contents(eps, show, stream, episode) ==
    [title |-> _format_post_text(eps, post_title, show, episode, stream),
     body |-> _format_post_text(eps, post_body, show, episode, stream)]

(***************************************************************************)
(* Persistence operations                                                  *)
(***************************************************************************)

\* db.stream_has_episode(stream, number)
stream_has_episode(eps, stream, number) ==
    \E i \in 1..Len(eps) : eps[i].show = stream.show /\ eps[i].number = number

\* db.add_episode(show, number, url)
add_episode(eps, show, number, url) ==
    Append(eps, [show |-> show, number |-> number, link |-> url])

\* db.set_show_delayed(show, value)
set_show_delayed(dl, show, value) == [dl EXCEPT ![show] = value]

(***************************************************************************)
(* Publish path                                                            *)
(***************************************************************************)

\* post_url is None
NoUrl == "None"

\* The outcomes of reddit.submit_text_post: a post, None, or an exception.
PublishOutcomes == {"ok", "none", "raise"}

\* What reddit.submit_text_post can answer once nposts posts are made.
PublishOutcomesAt(nposts) == IF nposts < MaxPosts THEN PublishOutcomes ELSE PublishOutcomes \ {"ok"}

\* A processor that submits in debug mode too.
SubmitAlways(dbg) == TRUE

\* submit = not config.debug
Submit(dbg) == ~dbg

\* What _create_reddit_post returns and does, given the composed contents.
Submitted(contents, nposts, submit, pub) ==
    [title |-> contents.title, body |-> contents.body, submitted |-> submit,
     url |-> IF submit /\ pub = "ok" THEN ShortLink(nposts + 1) ELSE NoUrl,
     posts |-> IF submit /\ pub = "ok" THEN nposts + 1 ELSE nposts,
     raised |-> submit /\ pub = "raise"]

\* A publish path that composes the post from a store that already holds the
\* record of the episode.
CreatePostAfterCommit(eps, nposts, show, stream, episode, submit, pub) ==
    CHOOSE r \in {Submitted(contents, nposts, submit, pub) :
                     contents \in {_create_post_contents(
                         add_episode(eps, show, episode.number, ShortLink(nposts + 1)),
                         show, stream, episode)}} : TRUE

_create_reddit_post(eps, nposts, show, stream, episode, submit, pub) ==
    CHOOSE r \in {Submitted(contents, nposts, submit, pub) :
                     contents \in {_create_post_contents(eps, show, stream, episode)}} : TRUE

(***************************************************************************)
(* Episode processor                                                       *)
(***************************************************************************)

\* A processor that takes every episode for live.
IsLiveAlways(episode) == TRUE

\* if episode.is_live
IsLive(episode) == episode.is_live

\* A processor that adds the offset.
CanonicalAdded(episode, stream) == episode.number + stream.remote_offset

\* episode.number = episode.number - stream.remote_offset
Canonical(episode, stream) == episode.number - stream.remote_offset

\* A processor that compares with the latest record only.
AlreadySeenLatest(eps, stream, number) ==
    eps # <<>> /\ eps[Len(eps)].show = stream.show /\ eps[Len(eps)].number = number

\* A processor that never finds an episode in the store.
AlreadySeenNever(eps, stream, number) == FALSE

\* already_seen = db.stream_has_episode(stream, episode.number)
AlreadySeen(eps, stream, number) == stream_has_episode(eps, stream, number)

\* A processor that commits whatever the publish returned.
PostedAlways(post_url) == TRUE

\* if post_url is not None
Posted(post_url) == post_url # NoUrl

\* A processor that sets the delayed flag of the show it commits for.
DelayedSetOnCommit(dl, show) == set_show_delayed(dl, show.id, TRUE)

\* A processor that leaves the delayed flag alone.
ClearDelayedNever(dl, show) == dl

\* if show.delayed: db.set_show_delayed(show, False)
ClearDelayed(dl, show) == IF show.delayed THEN set_show_delayed(dl, show.id, FALSE) ELSE dl

NoTrace ==
    [called |-> FALSE, live |-> FALSE, raw |-> 0, number |-> 0, seen |-> FALSE,
     composed |-> FALSE, submitted |-> FALSE, title |-> <<>>, body |-> <<>>,
     url |-> NoUrl, committed |-> FALSE, cleared |-> FALSE, raised |-> FALSE]

\* What a call has done when it returns without composing a post.
Trace(episode, live, number, seen) ==
    [NoTrace EXCEPT !.called = TRUE, !.raw = episode.number, !.live = live,
                    !.number = number, !.seen = seen]

\* What a call has done when it composed a post.
PostTrace(episode, number, post, committed, cleared) ==
    [Trace(episode, TRUE, number, FALSE) EXCEPT
        !.composed = TRUE, !.submitted = post.submitted, !.title = post.title,
        !.body = post.body, !.url = post.url, !.raised = post.raised,
        !.committed = committed, !.cleared = cleared]

\* The lines after post_url = _create_reddit_post(...): the commit, or the
\* error message.
AfterPost(eps, dl, show, stream, episode, number, post) ==
    IF ~post.raised /\ Posted(post.url)
    THEN [episodes |-> add_episode(eps, stream.show, number, post.url),
          delayed |-> ClearDelayed(dl, show),
          posts |-> post.posts,
          tr |-> PostTrace(episode, number, post, TRUE, show.delayed)]
    ELSE [episodes |-> eps, delayed |-> dl, posts |-> post.posts,
          tr |-> PostTrace(episode, number, post, FALSE, FALSE)]

\* The body of "if episode.is_live", number being the adjusted number.
ProcessLive(eps, dl, nposts, show, stream, episode, number, dbg, pub) ==
    IF ~AlreadySeen(eps, stream, number)
    THEN CHOOSE r \in
             {AfterPost(eps, dl, show, stream, episode, number, post) :
                 post \in {_create_reddit_post(eps, nposts, show.id, stream,
                               [episode EXCEPT !.number = number], Submit(dbg), pub)}} : TRUE
    ELSE [episodes |-> eps, delayed |-> dl, posts |-> nposts,
          tr |-> Trace(episode, TRUE, number, TRUE)]

\* The result of one call: the store and the publishing client afterwards,
\* and what the call did.
_process_new_episode(eps, dl, nposts, show, stream, episode, dbg, pub) ==
    IF IsLive(episode)
    THEN ProcessLive(eps, dl, nposts, show, stream, episode, Canonical(episode, stream),
                     dbg, pub)
    ELSE [episodes |-> eps, delayed |-> dl, posts |-> nposts,
          tr |-> Trace(episode, FALSE, episode.number, FALSE)]

(***************************************************************************)
(* Service handlers                                                        *)
(***************************************************************************)

RawNumbers == 0..MaxRaw

\* episode.name as the services report it: episode 0 has no name.
EpisodeName(n) == IF n = 0 THEN "" ELSE "Pilot"

\* What service_handler.get_latest_episode can do: return an episode, return
\* nothing, or fail.
NoEpisode == [kind |-> "none", number |-> 0, name |-> "", is_live |-> FALSE]

HandlerFailure == [kind |-> "raise", number |-> 0, name |-> "", is_live |-> FALSE]

Episodes ==
    {[kind |-> "episode", number |-> n, name |-> EpisodeName(n), is_live |-> live] :
        n \in RawNumbers, live \in BOOLEAN}

HandlerOutcomes == {NoEpisode, HandlerFailure} \cup Episodes

(***************************************************************************)
(* State                                                                   *)
(***************************************************************************)

VARIABLES
    episodes,   \* the persisted episode records, in stored order
    delayed,    \* the delayed flag of every show
    enabled,    \* the enabled flag of every show
    posts,      \* the number of posts the publishing client has made
    debug,      \* config.debug of the running invocation
    pc,         \* where main is: "idle", "dedicated" or "generic"
    unit,       \* dedicated pass: the index of the next stream
    others,     \* generic pass: the shows of other_shows not yet handled
    exc,        \* whether the last invocation ended with an exception leaving main
    last,       \* what the last step of main did
    failed,     \* the (show, number) pairs whose publish failed in the running invocation
    cleared,    \* the shows whose delayed flag the running invocation has cleared
    call,       \* composer on its own: the function applied and its arguments
    ret         \* composer on its own: what the function returned

vars ==
    <<episodes, delayed, enabled, posts, debug, pc, unit, others, exc, last, failed, cleared,
      call, ret>>

\* The variables of main.
mainVars ==
    <<episodes, delayed, enabled, posts, debug, pc, unit, others, exc, last, failed, cleared>>

\* The nested loops of the dedicated pass, unrolled: the streams of every
\* enabled service, in order.
RECURSIVE StreamsFrom(_)
StreamsFrom(i) ==
    IF i > Len(EnabledServices) THEN <<>>
    ELSE StreamsOf(EnabledServices[i]) \o StreamsFrom(i + 1)

DedicatedStreams == StreamsFrom(1)

NoShow == [id |-> MissingShow, enabled |-> FALSE, delayed |-> FALSE]

\* db.get_show(stream=stream): the show as it is stored now, or None.
get_show(stream, en, dl) ==
    IF stream.show \in Shows
    THEN [id |-> stream.show, enabled |-> en[stream.show], delayed |-> dl[stream.show]]
    ELSE NoShow

\* if show is None or not show.enabled: continue
Skipped(show) == show = NoShow \/ ~show.enabled

\* set(db.get_shows(missing_stream=True)) | set(db.get_shows(delayed=True))
other_shows(en, dl) ==
    {[id |-> s, enabled |-> en[s], delayed |-> dl[s]] :
        s \in {x \in Shows : StreamsOfShow(x) = <<>> \/ dl[x]}}

\* No handler has answered.
NoAnswers == [svc \in {EnabledServices[i] : i \in 1..Len(EnabledServices)} |-> NoEpisode]

\* No function of the composer is applied on its own.
NoCall == [fn |-> "none"]

NoStep ==
    [kind |-> "none", show |-> MissingShow, stream |-> FromShow(MissingShow),
     queried |-> <<>>, answers |-> NoAnswers, episode |-> NoEpisode, tr |-> NoTrace,
     before |-> <<>>, wasDelayed |-> FALSE]

Init ==
    /\ episodes = <<>>
    /\ delayed \in [Shows -> BOOLEAN]
    /\ enabled \in {e \in [Shows -> BOOLEAN] : e[2]}
    /\ posts = 0
    /\ debug = FALSE
    /\ pc = "idle"
    /\ unit = 1
    /\ others = {}
    /\ exc = FALSE
    /\ last = NoStep
    /\ failed = {}
    /\ cleared = {}
    /\ call = NoCall
    /\ ret = <<>>

\* The pairs whose publish failed, after a call that did what tr tells:
\* reddit.submit_text_post was called and returned no post. (When it raises,
\* the invocation is over.)
FailedAfter(f, stream, tr) ==
    IF tr.submitted /\ tr.url = NoUrl
    THEN f \cup {<<stream.show, tr.number>>}
    ELSE f

\* The shows whose delayed flag was cleared, after a call that did what tr
\* tells.
ClearedAfter(c, stream, tr) == IF tr.cleared THEN c \cup {stream.show} ELSE c

\* An invocation of main begins, config.debug being one of flags:
\* reddit.init_reddit(config), the enabled services are read.
StartMainWith(flags) ==
    /\ pc = "idle"
    /\ pc' = "dedicated"
    /\ unit' = 1
    /\ debug' \in flags
    /\ exc' = FALSE
    /\ last' = [NoStep EXCEPT !.kind = "start"]
    /\ failed' = {}
    /\ cleared' = {}
    /\ UNCHANGED <<episodes, delayed, enabled, posts, others, call, ret>>

StartMain == StartMainWith(BOOLEAN)

\* The answers of reddit.submit_text_post a call of _process_new_episode can
\* get: the client answers only when it is called.
PublishAnswers(eps, nposts, stream, episode, dbg) ==
    IF /\ IsLive(episode)
       /\ ~AlreadySeen(eps, stream, Canonical(episode, stream))
       /\ Submit(dbg)
    THEN PublishOutcomesAt(nposts)
    ELSE {"none"}

\* Any handler can give any answer.
AnyHandler == [id \in {DedicatedStreams[i].id : i \in 1..Len(DedicatedStreams)} |-> HandlerOutcomes]

\* One iteration of the dedicated pass: one stream of one enabled service,
\* the stream's handler giving one of the answers handler[stream.id].
CheckStreamFrom(handler) ==
    /\ pc = "dedicated"
    /\ unit <= Len(DedicatedStreams)
    /\ LET stream == DedicatedStreams[unit]
           show == get_show(stream, enabled, delayed)
           step == [NoStep EXCEPT !.kind = "stream", !.show = stream.show,
                                  !.stream = stream, !.before = episodes,
                                  !.wasDelayed = show.delayed]
       IN
       IF Skipped(show)
       THEN /\ last' = [step EXCEPT !.kind = "skip"]
            /\ unit' = unit + 1
            /\ UNCHANGED <<episodes, delayed, posts, pc, exc, failed, cleared>>
       ELSE \E h \in handler[stream.id] :
            IF h.kind = "raise"
            THEN /\ last' = [step EXCEPT !.queried = <<stream.service>>, !.episode = h]
                 /\ pc' = "idle"
                 /\ exc' = TRUE
                 /\ failed' = {}
                 /\ cleared' = {}
                 /\ UNCHANGED <<episodes, delayed, posts, unit>>
            ELSE IF h.kind = "none"
            THEN /\ last' = [step EXCEPT !.queried = <<stream.service>>]
                 /\ unit' = unit + 1
                 /\ UNCHANGED <<episodes, delayed, posts, pc, exc, failed, cleared>>
            ELSE \E pub \in PublishAnswers(episodes, posts, stream, h, debug) :
                 \E r \in {_process_new_episode(episodes, delayed, posts, show, stream, h,
                                                debug, pub)} :
                     /\ last' = [step EXCEPT !.queried = <<stream.service>>, !.episode = h,
                                             !.tr = r.tr]
                     /\ episodes' = r.episodes
                     /\ delayed' = r.delayed
                     /\ posts' = r.posts
                     /\ failed' = IF r.tr.raised THEN {} ELSE FailedAfter(failed, stream, r.tr)
                     /\ cleared' = IF r.tr.raised THEN {} ELSE ClearedAfter(cleared, stream, r.tr)
                     /\ IF r.tr.raised
                        THEN pc' = "idle" /\ exc' = TRUE /\ unit' = unit
                        ELSE pc' = pc /\ exc' = exc /\ unit' = unit + 1
    /\ UNCHANGED <<enabled, debug, others, call, ret>>

CheckStream == CheckStreamFrom(AnyHandler)

\* A generic pass that does not wait for the dedicated pass.
BeginGenericEarly ==
    /\ pc = "dedicated"
    /\ pc' = "generic"
    /\ others' = other_shows(enabled, delayed)
    /\ last' = [NoStep EXCEPT !.kind = "others"]
    /\ UNCHANGED <<episodes, delayed, enabled, posts, debug, unit, exc, failed, cleared, call, ret>>

\* The dedicated pass is over: other_shows is computed.
BeginGeneric ==
    /\ pc = "dedicated"
    /\ unit > Len(DedicatedStreams)
    /\ pc' = "generic"
    /\ others' = other_shows(enabled, delayed)
    /\ last' = [NoStep EXCEPT !.kind = "others"]
    /\ UNCHANGED <<episodes, delayed, enabled, posts, debug, unit, exc, failed, cleared, call, ret>>

\* if service_handler.is_generic
QueriedInGenericPass(svc) == IsGeneric(svc)

\* An inner loop without its break: every generic handler is queried, and
\* the last episode returned is the one left.
RECURSIVE GenericLoopAll(_, _)
GenericLoopAll(i, res) ==
    IF i > Len(EnabledServices) THEN [queried |-> <<>>, result |-> NoEpisode]
    ELSE IF QueriedInGenericPass(EnabledServices[i])
    THEN [queried |-> <<EnabledServices[i]>> \o GenericLoopAll(i + 1, res).queried,
          result |-> IF GenericLoopAll(i + 1, res).result # NoEpisode
                     THEN GenericLoopAll(i + 1, res).result
                     ELSE res[EnabledServices[i]]]
    ELSE GenericLoopAll(i + 1, res)

\* The inner loop of the generic pass from the i-th enabled service on: the
\* services queried, and the outcome that ended the loop (NoEpisode when the
\* loop ran to its end).
RECURSIVE GenericLoop(_, _)
GenericLoop(i, res) ==
    IF i > Len(EnabledServices) THEN [queried |-> <<>>, result |-> NoEpisode]
    ELSE LET svc == EnabledServices[i] IN
         IF QueriedInGenericPass(svc)
         THEN IF res[svc].kind = "none"
              THEN LET rest == GenericLoop(i + 1, res)
                   IN  [rest EXCEPT !.queried = <<svc>> \o rest.queried]
              ELSE [queried |-> <<svc>>, result |-> res[svc]]
         ELSE GenericLoop(i + 1, res)

\* The services whose handlers the generic pass can query.
GenericIds == {EnabledServices[i] : i \in {j \in 1..Len(EnabledServices) : IsGeneric(EnabledServices[j])}}

\* What the handlers of the enabled services answer, one answer each; the
\* handler of a service that is not generic answers nothing here.
HandlerAnswers ==
    {[svc \in DOMAIN NoAnswers |-> IF svc \in GenericIds THEN g[svc] ELSE NoEpisode] :
        g \in [GenericIds -> HandlerOutcomes]}

\* A handler answers only when it is queried: the answers of one run of the
\* inner loop.
QueriedAnswers ==
    {a \in HandlerAnswers :
        LET queried == GenericLoop(1, a).queried
        IN  \A svc \in GenericIds :
                a[svc] # NoEpisode => \E k \in 1..Len(queried) : queried[k] = svc}

\* One iteration of the generic pass: one show of other_shows.
CheckShow ==
    /\ pc = "generic"
    /\ \E show \in others :
       \E res \in QueriedAnswers :
        LET stream == FromShow(show.id)
            loop == GenericLoop(1, res)
            h == loop.result
            step == [NoStep EXCEPT !.kind = "show", !.show = show.id, !.stream = stream,
                                   !.queried = loop.queried, !.answers = res,
                                   !.episode = h, !.before = episodes,
                                   !.wasDelayed = show.delayed]
        IN
        IF h.kind = "raise"
        THEN /\ last' = step
             /\ pc' = "idle"
             /\ exc' = TRUE
             /\ failed' = {}
             /\ cleared' = {}
             /\ UNCHANGED <<episodes, delayed, posts, others>>
        ELSE IF h.kind = "none"
        THEN /\ last' = step
             /\ others' = others \ {show}
             /\ UNCHANGED <<episodes, delayed, posts, pc, exc, failed, cleared>>
        ELSE \E pub \in PublishAnswers(episodes, posts, stream, h, debug) :
             \E r \in {_process_new_episode(episodes, delayed, posts, show, stream, h,
                                            debug, pub)} :
                 /\ last' = [step EXCEPT !.tr = r.tr]
                 /\ episodes' = r.episodes
                 /\ delayed' = r.delayed
                 /\ posts' = r.posts
                 /\ failed' = IF r.tr.raised THEN {} ELSE FailedAfter(failed, stream, r.tr)
                 /\ cleared' = IF r.tr.raised THEN {} ELSE ClearedAfter(cleared, stream, r.tr)
                 /\ IF r.tr.raised
                    THEN pc' = "idle" /\ exc' = TRUE /\ others' = others
                    ELSE pc' = pc /\ exc' = exc /\ others' = others \ {show}
    /\ UNCHANGED <<enabled, debug, unit, call, ret>>

\* main returns.
FinishMain ==
    /\ pc = "generic"
    /\ others = {}
    /\ pc' = "idle"
    /\ last' = [NoStep EXCEPT !.kind = "finish"]
    /\ failed' = {}
    /\ cleared' = {}
    /\ UNCHANGED <<episodes, delayed, enabled, posts, debug, unit, others, exc, call, ret>>

Next == StartMain \/ CheckStream \/ BeginGeneric \/ CheckShow \/ FinishMain

Spec == Init /\ [][Next]_vars

(***************************************************************************)
(* Repeated invocations in which the handler of stream B keeps returning   *)
(* the same live episode and config.debug is off. main is invoked again    *)
(* and again and each invocation runs on; a publish of that episode that   *)
(* is possible again and again succeeds in the end.                        *)
(***************************************************************************)

SteadyStream == StreamB

SteadyEpisode == [kind |-> "episode", number |-> 1, name |-> EpisodeName(1), is_live |-> TRUE]

SteadyHandler == [AnyHandler EXCEPT ![SteadyStream.id] = {SteadyEpisode}]

SteadyStart == StartMainWith({FALSE})

SteadyCheckStream == CheckStreamFrom(SteadyHandler)

SteadyNext == SteadyStart \/ SteadyCheckStream \/ BeginGeneric \/ CheckShow \/ FinishMain

\* The steady episode is published and committed.
SteadyCommit ==
    /\ SteadyCheckStream
    /\ last'.stream = SteadyStream
    /\ last'.tr.committed

FairSpec ==
    /\ Init
    /\ [][SteadyNext]_vars
    /\ WF_vars(SteadyNext)
    /\ SF_vars(SteadyCommit)


(***************************************************************************)
(* The composer on its own: the content blocks, safe_format and            *)
(* _format_post_text applied to arguments drawn from bounded sets. main    *)
(* does not run.                                                           *)
(***************************************************************************)

\* Services 1 and 2 are enabled and used in posts, 3 is enabled and not used
\* in posts, 4 is not enabled.
AnyService == 1..4

AnyStream ==
    {[id |-> 1, show |-> 1, service |-> svc, remote_offset |-> 0, display_offset |-> 0,
      active |-> act] : svc \in AnyService, act \in BOOLEAN}

RECURSIVE SeqsUpTo(_, _)
\* The sequences over S of length at most n.
SeqsUpTo(S, n) ==
    IF n = 0 THEN {<<>>}
    ELSE LET shorter == SeqsUpTo(S, n - 1)
         IN  shorter \cup {Append(q, x) : q \in shorter, x \in S}

\* What db.get_streams(show=show) can return.
StreamLists == SeqsUpTo(AnyStream, MaxStreams)

ComposerInit ==
    /\ Init
    /\ delayed = [s \in Shows |-> FALSE]
    /\ enabled = [s \in Shows |-> TRUE]

\* _gen_text_streams, the show having the streams given.
CallGenTextStreams ==
    /\ call = NoCall
    /\ \E streams \in StreamLists :
          /\ call' = [fn |-> "_gen_text_streams", streams |-> streams]
          /\ ret' = StreamsBlock(streams)
    /\ UNCHANGED mainVars

\* The pieces of the templates given to safe_format: a literal, the fields
\* {a}, {b} and {a:02d}, the escapes {{ and }}, and a single brace.
Pieces ==
    {<<" and ">>, <<"{", "a", "}">>, <<"{", "b", "}">>, <<"{", "a", ":02d", "}">>,
     <<"{", "{">>, <<"}", "}">>, <<"{">>, <<"}">>}

RECURSIVE Concat(_)
Concat(q) == IF q = <<>> THEN <<>> ELSE Head(q) \o Concat(Tail(q))

Templates == {Concat(q) : q \in SeqsUpTo(Pieces, MaxPieces)}

\* The keyword arguments given to safe_format: a is a str, an int or not
\* given, b and c are a str or not given; no template names c.
Mappings ==
    (UNION {[D -> {<<"x">>, IntVal(5)}] : D \in SUBSET {"a"}})
    \X (UNION {[D -> {<<"y">>}] : D \in SUBSET {"b"}})
    \X (UNION {[D -> {<<"z">>}] : D \in SUBSET {"c"}})

\* The mapping made of three.
Merge(m) ==
    [k \in DOMAIN m[1] \cup DOMAIN m[2] \cup DOMAIN m[3] |->
        IF k \in DOMAIN m[1] THEN m[1][k] ELSE IF k \in DOMAIN m[2] THEN m[2][k] ELSE m[3][k]]

\* safe_format(s, **kwargs)
CallSafeFormat ==
    /\ call = NoCall
    /\ \E s \in Templates, m \in Mappings :
          /\ call' = [fn |-> "safe_format", s |-> s, kw |-> Merge(m)]
          /\ ret' = safe_format(s, Merge(m))
    /\ UNCHANGED mainVars

\* A record of the store.
AnyRecord ==
    {[show |-> s, number |-> n, link |-> ShortLink(k)] : s \in Shows, n \in -1..1, k \in 1..2}

\* What the store can hold.
Stores == SeqsUpTo(AnyRecord, MaxStored)

\* _gen_text_discussions, the store holding the records given.
CallGenTextDiscussions ==
    /\ call = NoCall
    /\ \E eps \in Stores, show \in Shows :
          /\ call' = [fn |-> "_gen_text_discussions", eps |-> eps, show |-> show]
          /\ ret' = _gen_text_discussions(eps, show)
    /\ UNCHANGED mainVars

\* The pieces of the templates given to _format_post_text: a literal, the
\* four block placeholders, the fields {episode} and {episode:02d}, the
\* escapes {{ and }}.
PostPieces ==
    {<<"x">>, <<"{", "spoiler", "}">>, <<"{", "streams", "}">>, <<"{", "links", "}">>,
     <<"{", "discussions", "}">>, <<"{", "episode", "}">>, <<"{", "episode", ":02d", "}">>,
     <<"{", "{">>, <<"}", "}">>}

PostTemplates == {Concat(q) : q \in SeqsUpTo(PostPieces, MaxPieces)}

\* The store when a post is composed: empty, or one record of show 1.
PostStores == {<<>>, <<[show |-> 1, number |-> 0, link |-> ShortLink(1)]>>}

\* _format_post_text(db, text, formats, show, episode, stream)
CallFormatPostText ==
    /\ call = NoCall
    /\ \E text \in PostTemplates, eps \in PostStores, show \in Shows,
          episode \in {e \in Episodes : e.is_live} :
          /\ call' = [fn |-> "_format_post_text", text |-> text, eps |-> eps, show |-> show,
                      episode |-> episode, stream |-> StreamA]
          /\ ret' = _format_post_text(eps, text, show, episode, StreamA)
    /\ UNCHANGED mainVars

\* The result is taken; another function can be applied.
ComposerReturn ==
    /\ call # NoCall
    /\ call' = NoCall
    /\ ret' = <<>>
    /\ UNCHANGED mainVars

ComposerNext ==
    \/ CallGenTextStreams
    \/ CallSafeFormat
    \/ CallGenTextDiscussions
    \/ CallFormatPostText
    \/ ComposerReturn

ComposerSpec == ComposerInit /\ [][ComposerNext]_vars

(***************************************************************************)
(* Properties                                                              *)
(***************************************************************************)

\* The store holds a record of (show, number).
HasRecord(eps, show, number) ==
    \E i \in 1..Len(eps) : eps[i].show = show /\ eps[i].number = number

UniqueRecords(eps) ==
    \A i, j \in 1..Len(eps) :
        (eps[i].show = eps[j].show /\ eps[i].number = eps[j].number) => i = j

\* The step called _process_new_episode.
Processed(step) == step.kind \in {"stream", "show"} /\ step.tr.called

\* C1: the store never holds two records of one (show, canonical number),
\* and the store changes only by one record being appended, for a pair that
\* had none, in a step whose publish for that pair returned a post URL.
C1_AtMostOneRecord ==
    [][/\ UniqueRecords(episodes')
       /\ episodes' # episodes =>
            /\ Processed(last')
            /\ last'.tr.submitted
            /\ last'.tr.url # NoUrl
            /\ ~HasRecord(episodes, last'.stream.show, last'.tr.number)
            /\ episodes' = Append(episodes, [show |-> last'.stream.show,
                                             number |-> last'.tr.number,
                                             link |-> last'.tr.url])]_vars

\* Two records of one show are stored, the second just committed.
C1_Witness ==
    /\ last.tr.committed
    /\ Len(episodes) = 2
    /\ episodes[1].show = episodes[2].show

\* C2: a call for a live episode whose (show, canonical number) has a record
\* composes and submits nothing and leaves the records, the delayed flags
\* and the publishing client as they were.
C2_Idempotent ==
    [][(/\ Processed(last')
        /\ last'.episode.is_live
        /\ HasRecord(episodes, last'.stream.show,
                     last'.episode.number - last'.stream.remote_offset))
       => /\ ~last'.tr.composed
          /\ ~last'.tr.submitted
          /\ episodes' = episodes
          /\ delayed' = delayed
          /\ posts' = posts]_vars

\* A call met an episode that an earlier call committed.
C2_Witness ==
    /\ Processed(last)
    /\ last.episode.is_live
    /\ last.tr.seen
    /\ HasRecord(episodes, last.stream.show, last.tr.number)

\* C3: a call for an episode that is not live composes and submits nothing
\* and changes neither the records nor the delayed flags.
C3_NotLiveNoEffect ==
    [][(Processed(last') /\ ~last'.episode.is_live)
       => /\ ~last'.tr.composed
          /\ ~last'.tr.submitted
          /\ episodes' = episodes
          /\ delayed' = delayed
          /\ posts' = posts]_vars

\* A call for an episode that is not live, on a stream with an offset, for a
\* delayed show, the store holding no record of the pair.
C3_Witness ==
    /\ Processed(last)
    /\ ~last.episode.is_live
    /\ last.stream.remote_offset # 0
    /\ last.wasDelayed
    /\ episodes # <<>>
    /\ ~HasRecord(episodes, last.stream.show, last.episode.number - last.stream.remote_offset)

\* C4: when the publishing client is called and returns no post, no record is
\* added, the delayed flags keep their values and stream_has_episode is still
\* false for the pair.
C4_FailedPublishNoEffect ==
    [][(Processed(last') /\ last'.tr.submitted /\ ~last'.tr.raised /\ last'.tr.url = NoUrl)
       => /\ episodes' = episodes
          /\ delayed' = delayed
          /\ ~stream_has_episode(episodes', last'.stream, last'.tr.number)]_vars

\* The client returned no post for a live, not yet seen episode of a delayed
\* show.
C4_Witness ==
    /\ Processed(last)
    /\ last.tr.submitted
    /\ ~last.tr.raised
    /\ last.tr.url = NoUrl
    /\ last.wasDelayed
    /\ delayed[last.show]

\* C6: when the publish returns a post URL, exactly one record is appended,
\* (the stream's show, raw number - remote_offset, that URL), and the show's
\* delayed flag is false afterwards while no other flag changes; so a delayed
\* show without records whose generic handler returns a live episode n ends
\* the step with the record (show, n, url) and delayed = false.
C6_Commit ==
    [][(Processed(last') /\ last'.tr.submitted /\ last'.tr.url # NoUrl)
       => /\ episodes' = Append(episodes,
                [show |-> last'.stream.show,
                 number |-> last'.episode.number - last'.stream.remote_offset,
                 link |-> last'.tr.url])
          /\ delayed' = [delayed EXCEPT ![last'.stream.show] = FALSE]
          /\ (last'.kind = "show" =>
                episodes'[Len(episodes')].number = last'.episode.number)]_vars

\* A delayed show without any record gets its first record from a generic
\* handler's episode, and is no longer delayed.
C6_Witness ==
    /\ last.kind = "show"
    /\ last.tr.committed
    /\ last.wasDelayed
    /\ ~delayed[last.show]
    /\ get_episodes(last.before, last.show) = <<>>
    /\ episodes[Len(episodes)] =
          [show |-> last.show, number |-> last.episode.number, link |-> last.tr.url]

\* C7: the number looked up in the store and the number stored are the raw
\* number minus the stream's remote_offset, and a number that is zero or
\* negative is committed like any other.
C7_CanonicalNumber ==
    [][(Processed(last') /\ last'.episode.is_live)
       => LET n == last'.episode.number - last'.stream.remote_offset IN
          /\ last'.tr.number = n
          /\ last'.tr.seen = HasRecord(episodes, last'.stream.show, n)
          /\ (~last'.tr.seen /\ last'.tr.url # NoUrl) =>
                /\ Len(episodes') = Len(episodes) + 1
                /\ episodes'[Len(episodes')].number = n]_vars

\* A record with a negative canonical number was just committed.
C7_Witness ==
    /\ last.tr.committed
    /\ last.episode.number - last.stream.remote_offset < 0
    /\ episodes[Len(episodes)].number < 0

\* The position of a symbol in a text, 0 when it is not there.
IndexOf(text, sym) ==
    IF \E i \in 1..Len(text) : text[i] = sym
    THEN CHOOSE i \in 1..Len(text) : text[i] = sym /\ \A j \in 1..(i - 1) : text[j] # sym
    ELSE 0

\* C8: the number in the title and in the body of a composed post is the raw
\* number - remote_offset + display_offset, and the number of the record
\* committed for that post is the raw number - remote_offset.
C8_DisplayNumber ==
    [][(Processed(last') /\ last'.tr.composed)
       => LET canonical == last'.episode.number - last'.stream.remote_offset
              shown == IntStr(canonical + last'.stream.display_offset)
              title == last'.tr.title
              body == last'.tr.body
          IN  /\ Len(title) >= 3
              /\ title[2] = " - Episode "
              /\ title[3] = shown
              /\ IndexOf(body, "Episode ") > 0
              /\ body[IndexOf(body, "Episode ") + 1] = shown
              /\ last'.tr.committed => episodes'[Len(episodes')].number = canonical]_vars

\* A post was committed for a stream whose two offsets differ from zero and
\* from each other.
C8_Witness ==
    /\ last.tr.committed
    /\ last.stream.remote_offset # 0
    /\ last.stream.display_offset # 0
    /\ last.stream.remote_offset # last.stream.display_offset
    /\ last.tr.title[3] # IntStr(episodes[Len(episodes)].number)

\* The generic services in enabled-service order.
GenericOrder == SelectSeq(EnabledServices, IsGeneric)

\* The first generic service, in that order, whose handler answered.
FirstAnswer(a) ==
    IF \E k \in 1..Len(GenericOrder) : a[GenericOrder[k]] # NoEpisode
    THEN CHOOSE k \in 1..Len(GenericOrder) :
            /\ a[GenericOrder[k]] # NoEpisode
            /\ \A j \in 1..(k - 1) : a[GenericOrder[j]] = NoEpisode
    ELSE 0

\* C10: a show handled in the generic pass has no tracked stream or is
\* delayed; the handlers queried for it are generic ones,
\* taken in enabled-service order up to the first that returns an episode and
\* no further, whether that episode is live, seen or neither; that episode,
\* and no other, is handed to _process_new_episode, with the synthetic
\* stream; and a show leaves other_shows once it is handled, so it is handled
\* once in the pass.
C10_FirstMatchWins ==
    [][last'.kind = "show"
       => LET q == last'.queried
              a == last'.answers
              first == FirstAnswer(a)
          IN  /\ \E sh \in others : sh.id = last'.show /\ (pc' = "generic" => others' = others \ {sh})
              /\ \A x, y \in others : x.id = y.id => x = y
              /\ StreamsOfShow(last'.show) = <<>> \/ delayed[last'.show]
              /\ last'.stream = FromShow(last'.show)
              /\ \A k \in 1..Len(q) : IsGeneric(q[k])
              /\ Len(q) = IF first = 0 THEN Len(GenericOrder) ELSE first
              /\ q = SubSeq(GenericOrder, 1, Len(q))
              /\ IF first = 0
                 THEN last'.episode = NoEpisode /\ ~last'.tr.called
                 ELSE /\ last'.episode = a[GenericOrder[first]]
                      /\ last'.tr.called = (last'.episode.kind = "episode")
                      /\ last'.tr.called => last'.tr.raw = last'.episode.number]_vars

\* The first generic handler returned an episode that is not live, a later
\* generic handler exists and was not queried.
C10_Witness ==
    /\ last.kind = "show"
    /\ Len(last.queried) = 1
    /\ Len(GenericOrder) > 1
    /\ last.episode.kind = "episode"
    /\ ~last.episode.is_live
    /\ last.tr.called

\* C9: a collaborator call that fails while one stream or one show is
\* handled counts as no result: the exception does not leave main, nothing is
\* persisted for the unit, and main goes on with the next stream or show.
C9_Isolation ==
    [][(/\ last'.kind \in {"stream", "show"}
        /\ last'.episode.kind = "raise" \/ last'.tr.raised)
       => /\ ~exc'
          /\ pc' = pc
          /\ episodes' = episodes
          /\ delayed' = delayed
          /\ pc = "dedicated" => unit' = unit + 1
          /\ pc = "generic" => \E sh \in others : others' = others \ {sh}]_vars

\* C5: with a handler that keeps returning the same live episode for an
\* enabled show, every call that finds no record of the pair composes a post
\* and hands it to the publishing client, a call that finds the record does
\* not, and, main being invoked again and again and the client accepting posts,
\* the record of the pair is committed in the end.
C5_AtLeastOnce ==
    /\ [][(Processed(last') /\ last'.stream = SteadyStream)
          => /\ last'.episode = SteadyEpisode
             /\ last'.tr.submitted =
                  ~HasRecord(episodes, SteadyStream.show,
                             SteadyEpisode.number - SteadyStream.remote_offset)]_vars
    /\ enabled[SteadyStream.show] =>
          <>(\/ posts >= MaxPosts
             \/ HasRecord(episodes, SteadyStream.show,
                          SteadyEpisode.number - SteadyStream.remote_offset))

\* C11: in an invocation with config.debug set the publishing client is never
\* called and neither the records nor the delayed flags change; a call for a
\* live episode without a record still composes title and body, and it ends
\* without a URL and without a commit, as after a publish that returned no
\* post.
C11_DebugDryRun ==
    [][debug'
       => /\ episodes' = episodes
          /\ delayed' = delayed
          /\ posts' = posts
          /\ Processed(last') =>
                /\ ~last'.tr.submitted
                /\ ~last'.tr.raised
                /\ last'.tr.url = NoUrl
                /\ ~last'.tr.committed
                /\ ~last'.tr.cleared
                /\ last'.tr.composed =
                     (/\ last'.episode.is_live
                      /\ ~HasRecord(episodes, last'.stream.show,
                                    last'.episode.number - last'.stream.remote_offset))
                /\ last'.tr.composed =>
                     /\ last'.tr.title =
                          _format_post_text(episodes, post_title, last'.show,
                              [last'.episode EXCEPT !.number = last'.tr.number], last'.stream)
                     /\ last'.tr.body =
                          _format_post_text(episodes, post_body, last'.show,
                              [last'.episode EXCEPT !.number = last'.tr.number], last'.stream)
                     /\ last'.tr.title # <<>>
                     /\ last'.tr.body # <<>>]_vars

\* In debug mode a post was composed for a live episode of a delayed show,
\* the store holding records already, and nothing was submitted.
C11_Witness ==
    /\ debug
    /\ Processed(last)
    /\ last.tr.composed
    /\ ~last.tr.submitted
    /\ last.wasDelayed
    /\ delayed[last.show]
    /\ episodes # <<>>

\* The lines of the qualifying streams, in stream order.
QualifyingLines(streams) ==
    [i \in 1..Len(SelectSeq(streams, Qualifies)) |-> StreamLine(SelectSeq(streams, Qualifies)[i])]

\* C12: the streams block is "*None*" whenever no stream of the show
\* qualifies (active, service enabled and used in posts), the show having no
\* stream at all or none that qualifies; otherwise it is one line per
\* qualifying stream, in stream order, joined by newlines.
C12_StreamsBlock ==
    call.fn = "_gen_text_streams"
    => IF SelectSeq(call.streams, Qualifies) = <<>>
       THEN ret = <<"*None*">>
       ELSE ret = JoinLines(QualifyingLines(call.streams))

\* The text the claim describes for a template without stray braces: a field
\* whose name is given is replaced by its value, a field whose name is not
\* given is echoed as it stands, an escaped brace is one brace.
RECURSIVE Echoed(_, _, _)
Echoed(s, i, kw) ==
    IF i > Len(s) THEN <<>>
    ELSE IF s[i] \in {"{", "}"} /\ i + 1 <= Len(s) /\ s[i + 1] = s[i]
    THEN <<s[i]>> \o Echoed(s, i + 2, kw)
    ELSE IF s[i] = "{" /\ i + 2 <= Len(s) /\ s[i + 2] = "}"
    THEN (IF s[i + 1] \in DOMAIN kw THEN Str(kw[s[i + 1]]) ELSE SubSeq(s, i, i + 2))
         \o Echoed(s, i + 3, kw)
    ELSE IF s[i] = "{" /\ i + 3 <= Len(s) /\ s[i + 3] = "}"
    THEN (IF s[i + 1] \in DOMAIN kw THEN Formatted(kw[s[i + 1]]) ELSE SubSeq(s, i, i + 3))
         \o Echoed(s, i + 4, kw)
    ELSE <<s[i]>> \o Echoed(s, i + 1, kw)

\* The mapping without one name.
Without(kw, k) == [n \in DOMAIN kw \ {k} |-> kw[n]]

\* All names of kw are names of full, with the same values.
Extends(full, kw) == DOMAIN kw \subseteq DOMAIN full /\ \A n \in DOMAIN kw : full[n] = kw[n]

\* C13: safe_format does not fail because a name is missing (if it returns
\* with more names given, it returns with fewer); when it returns, every
\* field whose name is given is replaced by the value and every field whose
\* name is not given is echoed as it stands; and a value no field names has
\* no effect.
C13_SafeFormat ==
    call.fn = "safe_format"
    => /\ (\E m \in Mappings :
               Extends(Merge(m), call.kw) /\ ~Raises(safe_format(call.s, Merge(m))))
           => ~Raises(ret)
       /\ ~Raises(ret) => ret = Echoed(call.s, 1, call.kw)
       /\ "c" \in DOMAIN call.kw => ret = safe_format(call.s, Without(call.kw, "c"))

\* The records of a show, in stored order.
RecordsOf(eps, show) == SelectSeq(eps, LAMBDA e : e.show = show)

\* One table line per record: a newline, the number, the separator of the
\* configured line format, the link.
RECURSIVE TableLines(_)
TableLines(recs) ==
    IF recs = <<>> THEN <<>>
    ELSE <<"\n", IntStr(Head(recs).number), "|", Head(recs).link>> \o TableLines(Tail(recs))

\* C14: the discussions block is the configured fallback text when the show
\* has no record, and otherwise the header line followed by one line per
\* record of that show, in stored order, made of that record's number and
\* link.
C14_DiscussionsBlock ==
    call.fn = "_gen_text_discussions"
    => IF RecordsOf(call.eps, call.show) = <<>>
       THEN ret = FormatDiscussionNone /\ ret # <<>>
       ELSE ret = FormatDiscussionHeader \o TableLines(RecordsOf(call.eps, call.show))

\* The block of a show with two records, a record of the other show stored
\* between them.
C14_Witness ==
    /\ call.fn = "_gen_text_discussions"
    /\ Len(call.eps) = 3
    /\ call.eps[1].show = call.show
    /\ call.eps[2].show # call.show
    /\ call.eps[3].show = call.show
    /\ call.eps[1].number > call.eps[3].number
    /\ Len(ret) = 9

\* C15: within one invocation of main, once the publish for a (show, number)
\* pair has failed, the publishing client is not called again for that pair,
\* whichever stream or pass yields it.
C15_NoSecondAttempt ==
    [][(Processed(last') /\ last'.tr.submitted)
       => <<last'.stream.show, last'.tr.number>> \notin failed]_vars

\* C16: the generic pass runs after the dedicated pass: a show is probed with
\* the synthetic stream only when every dedicated stream check of the
\* invocation is done, other_shows is computed then, from the delayed flags
\* the dedicated pass left, and a show whose flag the dedicated pass cleared
\* is not in it and is not probed in that invocation.
C16_GenericAfterDedicated ==
    [][/\ last'.kind \in {"stream", "skip"} => pc = "dedicated"
       /\ last'.kind = "others" =>
            /\ unit > Len(DedicatedStreams)
            /\ {sh.id : sh \in others'} = {s \in Shows : StreamsOfShow(s) = <<>> \/ delayed[s]}
            /\ \A sh \in others' : sh.id \notin cleared
       /\ last'.kind = "show" =>
            /\ pc = "generic"
            /\ unit > Len(DedicatedStreams)
            /\ last'.show \notin cleared]_vars

\* The generic pass probes a show after the dedicated pass of the same
\* invocation has committed an episode of a delayed show that has tracked
\* streams, and that show is not among the shows to probe.
C16_Witness ==
    /\ last.kind = "show"
    /\ \E s \in cleared :
          /\ StreamsOfShow(s) # <<>>
          /\ s # last.show
          /\ \A sh \in others : sh.id # s

\* The text got by computing all four blocks and rendering the template once
\* against all values, then stripping.
RenderedOnce(eps, text, show, episode, stream) ==
    Strip(safe_format(text,
        [spoiler |-> _gen_text_spoiler(show),
         streams |-> _gen_text_streams(show),
         links |-> _gen_text_links(show),
         discussions |-> _gen_text_discussions(eps, show),
         show_name |-> <<ShowName(show)>>,
         episode |-> IntVal(episode.number + stream.display_offset),
         episode_name |-> EpisodeNameSuffix(episode)]))

\* C17: for every template and every state of the show, _format_post_text
\* gives the text got by computing all four blocks and rendering the template
\* once against all values, then stripping.
C17_BlocksOnDemand ==
    call.fn = "_format_post_text"
    => ret = RenderedOnce(call.eps, call.text, call.show, call.episode, call.stream)

\* C18: no handler is queried, no publish is attempted and no record is made
\* for a show that is missing or whose enabled flag is false, in the dedicated
\* pass and in the generic pass alike.
C18_DisabledShowsSkipped ==
    [][(/\ last'.kind \in {"skip", "stream", "show"}
        /\ \/ last'.queried # <<>>
           \/ last'.tr.called
           \/ last'.tr.submitted
           \/ episodes' # episodes)
       => last'.show \in Shows /\ enabled[last'.show]]_vars

\* C19: a step of main changes the store only by appending one episode
\* record and by clearing the delayed flag of the show of that record: the
\* records already stored stay as they are, no flag goes from false to true,
\* a flag goes from true to false only in the step that adds a record for
\* its show, the enabled flags never change, and the record added names a
\* show of the store, never the synthetic stream.
C19_OnlyMutations ==
    [][/\ enabled' = enabled
       /\ DOMAIN delayed' = Shows
       /\ \A s \in Shows :
             delayed'[s] # delayed[s] =>
                /\ delayed[s]
                /\ ~delayed'[s]
                /\ Processed(last')
                /\ last'.tr.committed
                /\ last'.stream.show = s
                /\ Len(episodes') = Len(episodes) + 1
                /\ episodes'[Len(episodes')].show = s
       /\ episodes' # episodes =>
             /\ Len(episodes') = Len(episodes) + 1
             /\ SubSeq(episodes', 1, Len(episodes)) = episodes
             /\ DOMAIN episodes'[Len(episodes')] = {"show", "number", "link"}
             /\ episodes'[Len(episodes')].show \in Shows]_vars

\* A commit of the dedicated pass cleared the flag of its show while another
\* show stays delayed.
C19_Witness ==
    /\ last.kind = "stream"
    /\ last.tr.committed
    /\ last.tr.cleared
    /\ ~delayed[last.show]
    /\ \E s \in Shows : s # last.show /\ delayed[s]

\* The discussions block made of the records given.
BlockOf(recs) ==
    IF recs = <<>> THEN FormatDiscussionNone ELSE FormatDiscussionHeader \o TableLines(recs)

\* The last n symbols of a text.
Suffix(text, n) == SubSeq(text, Len(text) - n + 1, Len(text))

\* C20: a post is composed only for a pair without record and before the
\* record is committed: the discussions block of the body of the post for
\* (show, n) is made of exactly the records of the show stored before the
\* step, in stored order, and holds no line for n.
C20_DiscussionsBeforeCommit ==
    [][(Processed(last') /\ last'.tr.composed)
       => LET before == RecordsOf(episodes, last'.show)
              block == BlockOf(before)
              body == last'.tr.body
          IN  /\ ~HasRecord(episodes, last'.show, last'.tr.number)
              /\ Len(body) > Len(block)
              /\ Suffix(body, Len(block)) = block
              /\ body[Len(body) - Len(block)] = "\n"
              /\ \A i \in 1..(Len(body) - 2) :
                    ~(body[i] = "\n" /\ body[i + 1] = IntStr(last'.tr.number)
                                     /\ body[i + 2] = "|")]_vars

\* A post was committed for a show that had a record before, with a number
\* lower than the one stored first.
C20_Witness ==
    /\ Processed(last)
    /\ last.tr.committed
    /\ RecordsOf(last.before, last.show) # <<>>
    /\ last.tr.number < RecordsOf(last.before, last.show)[1].number
    /\ Len(RecordsOf(episodes, last.show)) = Len(RecordsOf(last.before, last.show)) + 1

====
